---- MODULE Spec2Model ----
(***************************************************************************)
(* update_html.py: parse_readme extracts the paper table of README.md into *)
(* records, update_index_html splices their JSON into index.html.          *)
(*                                                                         *)
(* A text is a sequence of tokens.  A token is one character, except that  *)
(* a fixed word no pattern of the program looks into ("Time", "const",     *)
(* "2024", "<strong>", a four-space indent ...) is carried as one token.   *)
(* "\\" is the backslash, "\"" the double quote, "\n" the newline and      *)
(* CheckMark stands for the non-ASCII character U+2713.                    *)
(***************************************************************************)
EXTENDS Integers, Sequences, FiniteSets, TLC

\* srcs is a history variable: the index in `lines` of the row each record of
\* `data` was built from.  htmlAtStart and prevOut are history variables too:
\* index.html as the current run found it, and what the run before printed.
VARIABLES pc, readmeFile, htmlFile, content, lines, idx, data, entries,
          html_content, out, ops, run, htmlAtStart, prevOut, srcs

vars == <<pc, readmeFile, htmlFile, content, lines, idx, data, entries,
          html_content, out, ops, run, htmlAtStart, prevOut, srcs>>

\* ------------------------------------------------------------------ bounds
MaxLines == 3
MaxRuns == 2

\* ------------------------------------------------------------ text helpers
CheckMark == "U+2713"
Indent == "    "

Min(S) == CHOOSE x \in S : \A y \in S : x <= y
Max(S) == CHOOSE x \in S : \A y \in S : x >= y

\* str.isspace on one token
IsSpace(c) == c \in {" ", "\n", "\t", Indent}

\* s[a:b] with 1-based inclusive ends; empty when b < a
Slice(s, a, b) == IF b < a THEN <<>> ELSE SubSeq(s, a, b)

\* str.strip()
Strip(s) ==
    LET keep == {i \in 1..Len(s) : ~IsSpace(s[i])}
    IN  IF keep = {} THEN <<>>
        ELSE SubSeq(s, Min(keep),
                    CHOOSE i \in keep : \A j \in (i + 1)..Len(s) : IsSpace(s[j]))

\* str.startswith / str.endswith with a one-token argument
StartsWith(s, c) == Len(s) >= 1 /\ s[1] = c
EndsWith(s, c) == Len(s) >= 1 /\ s[Len(s)] = c

\* '---' in s
HasDashes(s) ==
    \E i \in 1..(Len(s) - 2) : s[i] = "-" /\ s[i+1] = "-" /\ s[i+2] = "-"

\* str.split(sep): always at least one piece
RECURSIVE SplitOn(_, _)
SplitOn(s, sep) ==
    LET at == {i \in 1..Len(s) : s[i] = sep}
    IN  IF at = {} THEN <<s>>
        ELSE <<Slice(s, 1, Min(at) - 1)>>
             \o SplitOn(Slice(s, Min(at) + 1, Len(s)), sep)

RECURSIVE Flatten(_)
Flatten(ss) ==
    IF Len(ss) = 0 THEN <<>>
    ELSE IF Len(ss) = 1 THEN ss[1]
    ELSE LET h == Len(ss) \div 2
         IN  Flatten(SubSeq(ss, 1, h)) \o Flatten(SubSeq(ss, h + 1, Len(ss)))

NoNewline(s, a, b) == \A i \in a..b : s[i] # "\n"

\* ------------------------------------------------- parse_readme: the header
\* header_pattern: each name may be surrounded by whitespace, re.IGNORECASE
HeaderNames == <<"time", "venue", "paper", "research question/idea",
                 "method", "remark", "bib">>

Lower(c) ==
    CASE c = "Time" -> "time"
      [] c = "Venue" -> "venue"
      [] c = "Paper" -> "paper"
      [] c = "Research Question/Idea" -> "research question/idea"
      [] c = "Method" -> "method"
      [] c = "Remark" -> "remark"
      [] c = "Bib" -> "bib"
      [] c = "TIME" -> "time"
      [] OTHER -> c

\* first index >= p that holds no whitespace (Len + 1 when there is none)
SkipSpace(s, p) ==
    CHOOSE i \in p..(Len(s) + 1) :
        /\ i = Len(s) + 1 \/ ~IsSpace(s[i])
        /\ \A j \in p..(i - 1) : IsSpace(s[j])

\* the pattern matched from the k-th column name on, the "|" before it being
\* consumed already and p the next index: index of the match's last token, or 0
RECURSIVE HeaderFrom(_, _, _)
HeaderFrom(s, p, k) ==
    LET a == SkipSpace(s, p)
        b == SkipSpace(s, a + 1)
    IN  IF a > Len(s) \/ Lower(s[a]) # HeaderNames[k] THEN 0
        ELSE IF b > Len(s) \/ s[b] # "|" THEN 0
        ELSE IF k = Len(HeaderNames) THEN b
        ELSE HeaderFrom(s, b + 1, k + 1)

HeaderEndAt(s, p) == IF s[p] = "|" THEN HeaderFrom(s, p + 1, 1) ELSE 0

\* re.search(header_pattern, content): match.end() of the leftmost match, or 0
HeaderSearch(s) ==
    LET at == {p \in 1..Len(s) : HeaderEndAt(s, p) # 0}
    IN  IF at = {} THEN 0 ELSE HeaderEndAt(s, Min(at))

\* content[match.end():].strip().split('\n')
TableLines(s) == SplitOn(Strip(Slice(s, HeaderSearch(s) + 1, Len(s))), "\n")

\* start_idx (1-based): 2 when lines[0] is a separator row
StartIdx(ls) ==
    IF StartsWith(Strip(ls[1]), "|") /\ HasDashes(ls[1]) THEN 2 ELSE 1

\* --------------------------------------------------- parse_readme: one row
\* line 40: the test that sends a line to `continue`
IsTableRow(line) == StartsWith(Strip(line), "|")

\* lines 54-57: drop one leading and one trailing pipe, split, strip
StripPipes(line) ==
    LET a == IF StartsWith(line, "|") THEN Slice(line, 2, Len(line)) ELSE line
    IN  IF EndsWith(a, "|") THEN Slice(a, 1, Len(a) - 1) ELSE a

Cols(line) ==
    LET parts == SplitOn(StripPipes(Strip(line)), "|")
    IN  [i \in 1..Len(parts) |-> Strip(parts[i])]

MinCols == 6

\* variant: the Bib cell required too
EnoughColsWithBib(cols) == Len(cols) >= MinCols + 1
EnoughCols(cols) == Len(cols) >= MinCols

\* \[(.*?)\]\((.*?)\) tried at index p: <<j, k>>, the indexes of "]" and of
\* the closing ")", or <<0, 0>>
LinkAt(s, p) ==
    LET J == {j \in (p + 1)..(Len(s) - 2) :
                /\ s[j] = "]" /\ s[j + 1] = "("
                /\ NoNewline(s, p + 1, j - 1)
                /\ \E k \in (j + 2)..Len(s) :
                      s[k] = ")" /\ NoNewline(s, j + 2, k - 1)}
    IN  IF p > Len(s) \/ s[p] # "[" \/ J = {} THEN <<0, 0>>
        ELSE LET j == Min(J)
             IN  <<j, Min({k \in (j + 2)..Len(s) : s[k] = ")"})>>

\* the template <a href="\2">\1</a>
Anchor(label, url) ==
    <<"<a href=", "\"">> \o url \o <<"\"", ">">> \o label \o <<"</a>">>

RECURSIVE SubLinksFrom(_, _)
SubLinksFrom(s, p) ==
    IF p > Len(s) THEN <<>>
    ELSE LET m == LinkAt(s, p)
         IN  IF m[1] = 0 THEN <<s[p]>> \o SubLinksFrom(s, p + 1)
             ELSE Anchor(Slice(s, p + 1, m[1] - 1), Slice(s, m[1] + 2, m[2] - 1))
                  \o SubLinksFrom(s, m[2] + 1)

\* variant: re.sub with count=1
RECURSIVE SubLinksFirstOnly(_, _)
SubLinksFirstOnly(s, p) ==
    IF p > Len(s) THEN <<>>
    ELSE LET m == LinkAt(s, p)
         IN  IF m[1] = 0 THEN <<s[p]>> \o SubLinksFirstOnly(s, p + 1)
             ELSE Anchor(Slice(s, p + 1, m[1] - 1), Slice(s, m[1] + 2, m[2] - 1))
                  \o Slice(s, m[2] + 1, Len(s))

LinksFirstOnly(s) == SubLinksFirstOnly(s, 1)
\* re.sub(r'\[(.*?)\]\((.*?)\)', r'<a href="\2">\1</a>', s)
SubLinks(s) == SubLinksFrom(s, 1)

\* \*\*(.*?)\*\* tried at index p: index of the first "*" of the closing
\* pair, or 0
BoldAt(s, p) ==
    LET E == {e \in (p + 2)..(Len(s) - 1) :
                s[e] = "*" /\ s[e + 1] = "*" /\ NoNewline(s, p + 2, e - 1)}
    IN  IF p + 1 > Len(s) \/ s[p] # "*" \/ s[p + 1] # "*" \/ E = {} THEN 0
        ELSE Min(E)

\* the template <strong>\1</strong>
Strong(text) == <<"<strong>">> \o text \o <<"</strong>">>

RECURSIVE SubBoldFrom(_, _)
SubBoldFrom(s, p) ==
    IF p > Len(s) THEN <<>>
    ELSE LET e == BoldAt(s, p)
         IN  IF e = 0 THEN <<s[p]>> \o SubBoldFrom(s, p + 1)
             ELSE Strong(Slice(s, p + 2, e - 1)) \o SubBoldFrom(s, e + 2)

\* re.sub(r'\*\*(.*?)\*\*', r'<strong>\1</strong>', s)
SubBold(s) == SubBoldFrom(s, 1)

\* variant: the bold rewrite applied to every text column
EntryBoldEverywhere(cols) ==
    [time |-> SubBold(cols[1]), venue |-> SubBold(cols[2]),
     paper |-> SubLinks(cols[3]), question |-> SubBold(cols[4]),
     method |-> SubBold(cols[5]), remark |-> SubBold(cols[6]),
     bib |-> IF Len(cols) > 6 THEN SubBold(cols[7]) ELSE <<>>]

\* lines 64-99: the record of a row with at least 6 cells
Entry(cols) ==
    [time |-> cols[1], venue |-> cols[2],
     paper |-> SubLinks(cols[3]), question |-> SubBold(cols[4]),
     method |-> SubBold(cols[5]), remark |-> cols[6],
     bib |-> IF Len(cols) > 6 THEN cols[7] ELSE <<>>]

\* ------------------------------------------------ update_index_html: JSON
FieldNames == <<"time", "venue", "paper", "question", "method", "remark", "bib">>

\* json.dumps of one character of a string (ensure_ascii is on)
JsonEscape(c) ==
    CASE c = "\"" -> <<"\\", "\"">>
      [] c = "\\" -> <<"\\", "\\">>
      [] c = "\n" -> <<"\\", "n">>
      [] c = "\t" -> <<"\\", "t">>
      [] c = CheckMark -> <<"\\", "u", "2", "7", "1", "3">>
      [] OTHER -> <<c>>

JsonString(s) ==
    <<"\"">> \o Flatten([i \in 1..Len(s) |-> JsonEscape(s[i])]) \o <<"\"">>

\* ss[1] sep ss[2] sep ... ss[n]
RECURSIVE Join(_, _)
Join(ss, sep) ==
    IF Len(ss) = 0 THEN <<>>
    ELSE IF Len(ss) = 1 THEN ss[1]
    ELSE ss[1] \o sep \o Join(Tail(ss), sep)

JsonObject(e) ==
    <<Indent, "{", "\n">>
    \o Join([k \in 1..Len(FieldNames) |->
                <<Indent, Indent, "\"", FieldNames[k], "\"", ":", " ">>
                \o JsonString(e[FieldNames[k]])],
            <<",", "\n">>)
    \o <<"\n", Indent, "}">>

\* json.dumps(data, indent=4)
Dumps(d) ==
    IF Len(d) = 0 THEN <<"[", "]">>
    ELSE <<"[", "\n">>
         \o Join([i \in 1..Len(d) |-> JsonObject(d[i])], <<",", "\n">>)
         \o <<"\n", "]">>

\* ----------------------------------- update_index_html: the substitution
\* (const\s+data\s*=\s*)\[[\s\S]*?\]; tried at index p:
\* <<b, e>>, the indexes of the opening "[" and of the closing "]", or <<0, 0>>
StmtAt(h, p) ==
    IF p > Len(h) \/ h[p] # "const" THEN <<0, 0>>
    ELSE LET q == SkipSpace(h, p + 1)
             r == SkipSpace(h, q + 1)
             b == SkipSpace(h, r + 1)
             E == {e \in (b + 1)..(Len(h) - 1) : h[e] = "]" /\ h[e + 1] = ";"}
         IN  IF \/ q = p + 1 \/ q > Len(h) \/ h[q] # "data"
                \/ r > Len(h) \/ h[r] # "="
                \/ b > Len(h) \/ h[b] # "["
                \/ E = {}
             THEN <<0, 0>>
             ELSE <<b, Min(E)>>

\* variant: the search's result ignored
HasStmtAlways(h) == TRUE
\* re.search(pattern, html_content)
HasStmt(h) == \E p \in 1..Len(h) : StmtAt(h, p)[1] # 0

\* variant: the JSON used as the template as it is
NoEscape(s) == s
\* new_data_json.replace('\\', '\\\\')
EscapeBackslashes(s) ==
    Flatten([i \in 1..Len(s) |->
                IF s[i] = "\\" THEN <<"\\", "\\">> ELSE <<s[i]>>])

\* f"\\1{new_data_json_escaped};"
Template(escaped) == <<"\\", "1">> \o escaped \o <<";">>

\* tokens that are neither ASCII letters nor digits: re keeps a backslash
\* before one of them as it is
Punct == {"\"", "[", "]", "{", "}", "(", ")", ":", ",", ";", " ", "\n",
          Indent, "*", "|", "=", "-", "<a href=", "<strong>", "</strong>",
          "</a>", ">", CheckMark}

\* the scan reads a backslash together with the token after it, so in a run
\* of backslashes every other one, counted from the run's first, opens an
\* escape
RunStart(t, p) ==
    p - (CHOOSE n \in 0..(p - 1) :
            /\ \A r \in (p - n)..p : t[r] = "\\"
            /\ p - n = 1 \/ t[p - n - 1] # "\\")
OpensEscape(t, p) ==
    p >= 1 /\ p <= Len(t) /\ t[p] = "\\" /\ (p - RunStart(t, p)) % 2 = 0

\* what the escape \c stands for in a replacement template; <<"?">> where re
\* raises "bad escape" or "invalid group reference"
EscapeText(c, g) ==
    CASE c = "1" -> g
      [] c = "\\" -> <<"\\">>
      [] c = "n" -> <<"\n">>
      [] c = "t" -> <<"\t">>
      [] c \in Punct -> <<"\\", c>>
      [] OTHER -> <<"?">>

EscapeOk(t, p) ==
    p < Len(t) /\ (t[p + 1] \in Punct \cup {"1", "\\", "n", "t"})

\* the replacement template expanded for one match whose group 1 is g:
\* ok is FALSE where re raises
Expand(t, g) ==
    [ok |-> \A p \in 1..Len(t) : OpensEscape(t, p) => EscapeOk(t, p),
     text |-> Flatten([p \in 1..Len(t) |->
                 IF OpensEscape(t, p)
                 THEN IF p < Len(t) THEN EscapeText(t[p + 1], g) ELSE <<>>
                 ELSE IF OpensEscape(t, p - 1) THEN <<>>
                 ELSE <<t[p]>>])]

\* start of the leftmost match at or after p, 0 when there is none
NextStmt(h, p) ==
    LET at == {q \in p..Len(h) : StmtAt(h, q)[1] # 0}
    IN  IF at = {} THEN 0 ELSE Min(at)

RECURSIVE SubStmtFrom(_, _, _)
SubStmtFrom(h, p, t) ==
    LET q == NextStmt(h, p)
    IN  IF q = 0 THEN Slice(h, p, Len(h))
        ELSE LET m == StmtAt(h, q)
             IN  Slice(h, p, q - 1)
                 \o Expand(t, Slice(h, q, m[1] - 1)).text
                 \o SubStmtFrom(h, m[2] + 2, t)

\* the same with [\s\S]* in place of [\s\S]*?
SubStmtGreedyFrom(h, p, t) ==
    LET q == NextStmt(h, p)
        E == {e \in 1..(Len(h) - 1) : h[e] = "]" /\ h[e + 1] = ";"}
    IN  IF q = 0 THEN Slice(h, p, Len(h))
        ELSE Slice(h, p, q - 1)
             \o Expand(t, Slice(h, q, StmtAt(h, q)[1] - 1)).text
             \o Slice(h, Max(E) + 2, Len(h))

SubStmtGreedy(h, t) == SubStmtGreedyFrom(h, 1, t)
\* re.sub(pattern, template, html_content)
SubStmt(h, t) == SubStmtFrom(h, 1, t)

\* ------------------------------------------------------- the files of a run
Cell(ws) == <<" ">> \o ws \o <<" ", "|">>
Row(cells) == <<"|">> \o Flatten([i \in 1..Len(cells) |-> Cell(cells[i])])

Dashes == <<"-", "-", "-">>
SepLine == Row(<<Dashes, Dashes, Dashes, Dashes, Dashes, Dashes, Dashes>>)

\* | 2024 | NeurIPS | [P](u) x [Q](v) | **Q** | a **M** b **N** | U+2713 | [ref](b)**k** |
FullRow ==
    Row(<< <<"2024">>, <<"NeurIPS">>,
           <<"[", "P", "]", "(", "u", ")", " ", "x", " ",
             "[", "Q", "]", "(", "v", ")">>,
           <<"*", "*", "Q", "*", "*">>,
           <<"a", " ", "*", "*", "M", "*", "*", " ", "b", " ",
             "*", "*", "N", "*", "*">>,
           <<CheckMark>>,
           <<"[", "ref", "]", "(", "b", ")", "*", "*", "k", "*", "*">> >>)

\*   | 2023|**V** [v](w) |x[a[b](u)y(|****|**M|"\n, indented, six cells, no
\* closing pipe
OddRow ==
    <<" ", " ", "|", " ", "2023", "|">>
    \o <<"*", "*", "V", "*", "*", " ", "[", "v", "]", "(", "w", ")", " ", "|">>
    \o <<"x", "[", "a", "[", "b", "]", "(", "u", ")", "y", "(", "|">>
    \o <<"*", "*", "*", "*", "|">>
    \o <<"*", "*", "M", "|">>
    \o <<"\"", "\\", "n">>

\* | 2021 | V | **P** | q | m | x];y |
BracketRow ==
    Row(<< <<"2021">>, <<"V">>, <<"*", "*", "P", "*", "*">>, <<"q">>, <<"m">>,
           <<"x", "]", ";", "y">> >>)

\* | 2022 | V | [P](u) | q | m |
ShortRow ==
    Row(<< <<"2022">>, <<"V">>, <<"[", "P", "]", "(", "u", ")">>,
           <<"q">>, <<"m">> >>)

\* text|b|c|d|e|f  (six cells if it were split, but no leading pipe)
TextLine == <<"text", "|", "b", "|", "c", "|", "d", "|", "e", "|", "f">>

BlankLine == <<" ">>

LineSet == {SepLine, FullRow, OddRow, BracketRow, ShortRow, TextLine, BlankLine}

HeaderRow ==
    Row(<< <<"Time">>, <<"Venue">>, <<"Paper">>, <<"Research Question/Idea">>,
           <<"Method">>, <<"Remark">>, <<"Bib">> >>)

\* |TIME|venue|Paper| Research Question/Idea|Method|Remark|bib|
HeaderTight ==
    <<"|", "TIME", "|", "venue", "|", "Paper", "|", " ",
      "Research Question/Idea", "|", "Method", "|", "Remark", "|", "bib", "|">>

\* a header without its Bib column
HeaderSix ==
    Row(<< <<"Time">>, <<"Venue">>, <<"Paper">>, <<"Research Question/Idea">>,
           <<"Method">>, <<"Remark">> >>)

Readme(header, body) ==
    <<"#", " ", "text", "\n", "\n">> \o header \o <<"\n">>
    \o Join(body, <<"\n">>) \o <<"\n">>

Bodies(n) == UNION {[1..k -> LineSet] : k \in 0..n}

File(text) == [exists |-> TRUE, text |-> text]
NoFile == [exists |-> FALSE, text |-> <<>>]

HtmlEmpty ==
    <<"<script>", "\n", "const", " ", "data", " ", "=", " ", "[", "]", ";",
      "\n", "</script>">>

\* const\ndata=[\n x];tail
HtmlOld ==
    <<"<script>", "const", "\n", "data", "=", "[", "\n", " ", "x", "]", ";",
      "tail", "</script>">>

\* two statements of the shape
HtmlTwo ==
    <<"const", " ", "data", " ", "=", " ", "[", "1", "]", ";", "\n", "mid",
      "\n", "const", " ", Indent, "data", "=", " ", "[", "2", "]", ";", "end">>

\* const data = {}; constdata = [];  and an array never closed by "];"
HtmlNoStmt ==
    <<"<script>", "const", " ", "data", " ", "=", " ", "{", "}", ";", "\n",
      "const", "data", "=", "[", "]", ";", "\n",
      "const", " ", "data", " ", "=", " ", "[", "1", "]", "\n", ";">>

ReadmeWide == {File(Readme(HeaderRow, b)) : b \in Bodies(MaxLines)}

ReadmeFew ==
    {NoFile,
     File(Readme(HeaderSix, <<SepLine, FullRow>>)),
     File(Readme(HeaderTight, <<ShortRow, ShortRow>>)),
     File(Readme(HeaderTight, <<SepLine, FullRow>>)),
     File(Readme(HeaderRow, <<SepLine, OddRow, FullRow>>)),
     File(Readme(HeaderRow, <<SepLine, BracketRow>>))}

HtmlAll == {NoFile, File(HtmlEmpty), File(HtmlOld), File(HtmlTwo), File(HtmlNoStmt)}

\* ------------------------------------------------------------------ the run
Init ==
    /\ \/ readmeFile \in ReadmeWide /\ htmlFile = File(HtmlEmpty)
       \/ readmeFile \in ReadmeFew /\ htmlFile \in HtmlAll
    /\ pc = "main"
    /\ content = <<>>
    /\ lines = <<>>
    /\ idx = 1
    /\ data = <<>>
    /\ entries = <<>>
    /\ html_content = <<>>
    /\ out = <<>>
    /\ ops = <<>>
    /\ run = 1
    /\ htmlAtStart = htmlFile
    /\ prevOut = <<>>
    /\ srcs = <<>>

Say(msg, n) == out' = Append(out, [msg |-> msg, n |-> n])
Did(op) == ops' = Append(ops, op)

\* lines 10-15: README.md is missing
ReadmeNotFound ==
    /\ pc = "main"
    /\ ~readmeFile.exists
    /\ Did("read README.md")
    /\ Say("README.md not found", 0)
    /\ entries' = <<>>
    /\ pc' = "main_if"
    /\ UNCHANGED <<readmeFile, htmlFile, content, lines, idx, data,
                   html_content, run, htmlAtStart, prevOut, srcs>>

\* lines 10-12
ReadReadme ==
    /\ pc = "main"
    /\ readmeFile.exists
    /\ Did("read README.md")
    /\ content' = readmeFile.text
    /\ pc' = "header"
    /\ UNCHANGED <<readmeFile, htmlFile, lines, idx, data, entries,
                   html_content, out, run, htmlAtStart, prevOut, srcs>>

\* lines 19-24
HeaderNotFound ==
    /\ pc = "header"
    /\ HeaderSearch(content) = 0
    /\ Say("header not found", 0)
    /\ entries' = <<>>
    /\ pc' = "main_if"
    /\ UNCHANGED <<readmeFile, htmlFile, content, lines, idx, data,
                   html_content, ops, run, htmlAtStart, prevOut, srcs>>

\* lines 27-36
HeaderFound ==
    /\ pc = "header"
    /\ HeaderSearch(content) # 0
    /\ lines' = TableLines(content)
    /\ data' = <<>>
    /\ srcs' = <<>>
    /\ idx' = StartIdx(lines')
    /\ pc' = "loop"
    /\ UNCHANGED <<readmeFile, htmlFile, content, entries, html_content,
                   out, ops, run, htmlAtStart, prevOut>>

\* lines 38-41: a line that is no table row
SkipLine ==
    /\ pc = "loop"
    /\ idx <= Len(lines)
    /\ ~IsTableRow(lines[idx])
    /\ idx' = idx + 1
    /\ UNCHANGED <<pc, readmeFile, htmlFile, content, lines, data, entries,
                   html_content, out, ops, run, htmlAtStart, prevOut, srcs>>

\* lines 54-61: a row with too few cells
DropRow ==
    /\ pc = "loop"
    /\ idx <= Len(lines)
    /\ IsTableRow(lines[idx])
    /\ ~EnoughCols(Cols(lines[idx]))
    /\ idx' = idx + 1
    /\ UNCHANGED <<pc, readmeFile, htmlFile, content, lines, data, entries,
                   html_content, out, ops, run, htmlAtStart, prevOut, srcs>>

\* lines 54-100
AppendRow ==
    /\ pc = "loop"
    /\ idx <= Len(lines)
    /\ IsTableRow(lines[idx])
    /\ EnoughCols(Cols(lines[idx]))
    /\ data' = Append(data, Entry(Cols(lines[idx])))
    /\ srcs' = Append(srcs, idx)
    /\ idx' = idx + 1
    /\ UNCHANGED <<pc, readmeFile, htmlFile, content, lines, entries,
                   html_content, out, ops, run, htmlAtStart, prevOut>>

\* line 102 and line 140
ReturnData ==
    /\ pc = "loop"
    /\ idx > Len(lines)
    /\ entries' = data
    /\ pc' = "main_if"
    /\ UNCHANGED <<readmeFile, htmlFile, content, lines, idx, data,
                   html_content, out, ops, run, htmlAtStart, prevOut, srcs>>

\* variant: update_index_html called whatever parse_readme returned
TruthyAlways(e) == TRUE
\* line 141: `if entries`
Truthy(e) == Len(e) > 0

\* lines 141-142, entries empty
SkipUpdate ==
    /\ pc = "main_if"
    /\ ~Truthy(entries)
    /\ pc' = "done"
    /\ UNCHANGED <<readmeFile, htmlFile, content, lines, idx, data, entries,
                   html_content, out, ops, run, htmlAtStart, prevOut, srcs>>

\* lines 141-142
CallUpdate ==
    /\ pc = "main_if"
    /\ Truthy(entries)
    /\ pc' = "open_html"
    /\ UNCHANGED <<readmeFile, htmlFile, content, lines, idx, data, entries,
                   html_content, out, ops, run, htmlAtStart, prevOut, srcs>>

\* variant: a mode that creates the file
OpenCreating(f) == IF f.exists THEN f ELSE File(<<>>)
\* lines 109, 134: what open(html_path, "r") leaves of the file
OpenForRead(f) == f

\* lines 108-113: index.html is missing
HtmlNotFound ==
    /\ pc = "open_html"
    /\ ~htmlFile.exists
    /\ htmlFile' = OpenForRead(htmlFile)
    /\ Did("read index.html")
    /\ Say("index.html not found", 0)
    /\ pc' = "done"
    /\ UNCHANGED <<readmeFile, content, lines, idx, data, entries,
                   html_content, run, htmlAtStart, prevOut, srcs>>

\* lines 108-110
ReadHtml ==
    /\ pc = "open_html"
    /\ htmlFile.exists
    /\ htmlFile' = OpenForRead(htmlFile)
    /\ Did("read index.html")
    /\ html_content' = htmlFile.text
    /\ pc' = "search"
    /\ UNCHANGED <<readmeFile, content, lines, idx, data, entries,
                   out, run, htmlAtStart, prevOut, srcs>>

\* lines 116-125: no `const data = [...];` in the document
StmtNotFound ==
    /\ pc = "search"
    /\ ~HasStmt(html_content)
    /\ Say("const data not found", 0)
    /\ pc' = "done"
    /\ UNCHANGED <<readmeFile, htmlFile, content, lines, idx, data, entries,
                   html_content, ops, run, htmlAtStart, prevOut, srcs>>

\* lines 116-137: substitute, write back, report.  re.sub raising on the
\* template ends the program before the file is opened for writing.
WriteHtml ==
    /\ pc = "search"
    /\ HasStmt(html_content)
    /\ LET t == Template(EscapeBackslashes(Dumps(entries)))
       IN  IF Expand(t, <<>>).ok
           THEN /\ htmlFile' = File(SubStmt(html_content, t))
                /\ Did("write index.html")
                /\ Say("updated", Len(entries))
                /\ pc' = "done"
           ELSE /\ pc' = "crashed"
                /\ UNCHANGED <<htmlFile, ops, out>>
    /\ UNCHANGED <<readmeFile, content, lines, idx, data, entries,
                   html_content, run, htmlAtStart, prevOut, srcs>>

\* the program is run again on the files the last run left
Rerun ==
    /\ pc = "done"
    /\ run < MaxRuns
    /\ run' = run + 1
    /\ prevOut' = out
    /\ htmlAtStart' = htmlFile
    /\ pc' = "main"
    /\ content' = <<>>
    /\ lines' = <<>>
    /\ idx' = 1
    /\ data' = <<>>
    /\ entries' = <<>>
    /\ html_content' = <<>>
    /\ out' = <<>>
    /\ ops' = <<>>
    /\ srcs' = <<>>
    /\ UNCHANGED <<readmeFile, htmlFile>>

Next ==
    \/ ReadmeNotFound
    \/ ReadReadme
    \/ HeaderNotFound
    \/ HeaderFound
    \/ SkipLine
    \/ DropRow
    \/ AppendRow
    \/ ReturnData
    \/ SkipUpdate
    \/ CallUpdate
    \/ HtmlNotFound
    \/ ReadHtml
    \/ StmtNotFound
    \/ WriteHtml
    \/ Rerun

Spec == Init /\ [][Next]_vars

\* ===================================================== properties: extract
Range(f) == {f[i] : i \in DOMAIN f}
Said(o, msg) == \E i \in 1..Len(o) : o[i].msg = msg
Extracted == pc = "main_if" /\ Len(lines) > 0

\* a line whose first non-blank character is the pipe
RowLike(line) == \E i \in 1..Len(line) :
    line[i] = "|" /\ \A j \in 1..(i - 1) : IsSpace(line[j])

\* the number of cells of a row, counted from its pipes: one more than the
\* pipes that are neither the leading one nor a closing one
CellCount(line) ==
    LET s == Strip(line)
        pipes == Cardinality({i \in 1..Len(s) : s[i] = "|"})
    IN  pipes - (IF Len(s) > 1 /\ s[Len(s)] = "|" THEN 1 ELSE 0)

\* the text between the first two pipes of a row, trimmed
FirstCell(line) ==
    LET s == Strip(line)
        later == {i \in 2..Len(s) : s[i] = "|"}
    IN  Strip(Slice(s, 2, IF later = {} THEN Len(s) ELSE Min(later) - 1))

SeparatorFirst(ls) == RowLike(ls[1]) /\ HasDashes(ls[1])

\* the data rows of the table: the row-like lines after the header, the
\* separator row apart
DataRows(ls) ==
    {i \in 1..Len(ls) : RowLike(ls[i])} \ (IF SeparatorFirst(ls) THEN {1} ELSE {})

WideRows(ls) == {i \in DataRows(ls) : CellCount(ls[i]) >= 6}

\* line i comes after the end of the table: a line that is no row lies before
\* it, and a row that yields a record before that one
PastTableEnd(ls, i) ==
    \E b \in 1..(i - 1) :
        /\ ~RowLike(ls[b])
        /\ \E r \in 1..(b - 1) : r \in WideRows(ls)

\* C1: once a data row has been read, the first line that does not start with
\* the pipe ends the table; no line after it contributes a record.
C1_TableEndsAtFirstNonRow ==
    pc \in {"loop", "main_if"} =>
        \A k \in 1..Len(srcs) : ~PastTableEnd(lines, srcs[k])

IsLink(c, s, j, k) ==
    /\ c[s] = "[" /\ c[j] = "]" /\ c[j + 1] = "(" /\ c[k] = ")"
    /\ \A j2 \in (s + 1)..(j - 1) :
          ~(c[j2] = "]" /\ c[j2 + 1] = "(" /\ \E k2 \in (j2 + 2)..Len(c) : c[k2] = ")")
    /\ \A k2 \in (j + 2)..(k - 1) : c[k2] # ")"

Links(c) ==
    {m \in {s \in 1..Len(c) : c[s] = "["} \X {j \in 1..Len(c) : c[j] = "]"}
            \X {k \in 1..Len(c) : c[k] = ")"} :
        m[1] < m[2] /\ m[2] + 2 <= m[3] /\ IsLink(c, m[1], m[2], m[3])}

\* <<s, e, e + 1>>: a bold span opens with "**" at s and closes with the first
\* "**" at e >= s + 2
IsBold(c, s, e) ==
    /\ e >= s + 2 /\ e < Len(c)
    /\ c[s] = "*" /\ c[s + 1] = "*" /\ c[e] = "*" /\ c[e + 1] = "*"
    /\ \A e2 \in (s + 2)..(e - 1) : ~(c[e2] = "*" /\ c[e2 + 1] = "*")

Bolds(c) ==
    {<<p[1], p[2], p[2] + 1>> :
        p \in {q \in {s \in 1..Len(c) : c[s] = "*"} \X {e \in 1..Len(c) : c[e] = "*"} :
                  IsBold(c, q[1], q[2])}}

\* of the spans a left-to-right scan can find, the ones it takes: they do not
\* overlap, and a span is left out only when it opens inside one taken
Taken(spans) ==
    CHOOSE M \in SUBSET spans :
        /\ \A a, b \in M : a = b \/ a[3] < b[1] \/ b[3] < a[1]
        /\ \A l \in spans \ M : \E m \in M : m[1] < l[1] /\ l[1] <= m[3]

\* c with each span of M replaced by what Piece gives, the rest untouched
Rewritten(c, M, Piece(_)) ==
    Flatten([i \in 1..Len(c) |->
        IF \E m \in M : m[1] = i THEN Piece(CHOOSE m \in M : m[1] = i)
        ELSE IF \E m \in M : m[1] < i /\ i <= m[3] THEN <<>>
        ELSE <<c[i]>>])

WithAnchors(c) ==
    LET Piece(m) == <<"<a href=", "\"">> \o Slice(c, m[2] + 2, m[3] - 1)
                    \o <<"\"", ">">> \o Slice(c, m[1] + 1, m[2] - 1) \o <<"</a>">>
    IN  Rewritten(c, Taken(Links(c)), Piece)

WithStrong(c) ==
    LET Piece(m) == <<"<strong>">> \o Slice(c, m[1] + 2, m[2] - 1) \o <<"</strong>">>
    IN  Rewritten(c, Taken(Bolds(c)), Piece)

CellsOf(k) == Cols(lines[srcs[k]])

\* C8: paper is the third cell with every link [label](url) rewritten to
\* <a href="url">label</a>, label and url taken as short as possible, every
\* link of the cell rewritten and the text outside the links kept.
C8_PaperLinksRewritten ==
    Extracted => \A k \in 1..Len(entries) : entries[k].paper = WithAnchors(CellsOf(k)[3])

C8_Witness ==
    /\ Extracted
    /\ \E k \in 1..Len(entries) :
          /\ Cardinality(Taken(Links(CellsOf(k)[3]))) = 2
          /\ "x" \in Range(entries[k].paper)

\* C9: bold spans become <strong> in question and method, each from its own
\* cell; time, venue, remark and bib are their trimmed cells unchanged, paper
\* gets no <strong>, and bib is empty when the row has exactly 6 cells.
C9_BoldOnlyInQuestionAndMethod ==
    Extracted =>
        \A k \in 1..Len(entries) :
            LET e == entries[k]
                cols == CellsOf(k)
            IN  /\ e.question = WithStrong(cols[4])
                /\ e.method = WithStrong(cols[5])
                /\ e.time = cols[1]
                /\ e.venue = cols[2]
                /\ e.remark = cols[6]
                /\ e.bib = IF Len(cols) >= 7 THEN cols[7] ELSE <<>>
                /\ "<strong>" \notin Range(e.paper)

C9_Witness ==
    /\ Extracted
    /\ \E k \in 1..Len(entries) :
          /\ Len(CellsOf(k)) = 6 /\ entries[k].bib = <<>>
          /\ "*" \in Range(entries[k].venue) /\ "[" \in Range(entries[k].venue)
    /\ \E k \in 1..Len(entries) :
          /\ "<strong>" \in Range(entries[k].method)
          /\ "*" \in Range(entries[k].bib)

\* ====================================================== properties: inject
Updated == pc = "done" /\ Said(out, "updated")
Before == htmlAtStart.text
After == htmlFile.text

\* <<p, b, e + 1>>: a statement opens with `const` at p, its array with "[" at
\* b, and the first "];" after b is at e
AllSpace(h, a, b) == \A i \in a..b : IsSpace(h[i])

PrefixOk(h, p, b) ==
    \E q \in (p + 2)..(b - 2) :
        /\ h[q] = "data" /\ AllSpace(h, p + 1, q - 1)
        /\ \E r \in (q + 1)..(b - 1) :
              h[r] = "=" /\ AllSpace(h, q + 1, r - 1) /\ AllSpace(h, r + 1, b - 1)

IsStmt(h, p, b, e) ==
    /\ h[e] = "]" /\ h[e + 1] = ";"
    /\ \A e2 \in (b + 1)..(e - 1) : ~(h[e2] = "]" /\ h[e2 + 1] = ";")
    /\ PrefixOk(h, p, b)

Opens(h) ==
    {o \in {p \in 1..Len(h) : h[p] = "const"} \X {b \in 1..Len(h) : h[b] = "["} :
        PrefixOk(h, o[1], o[2])}

Stmts(h) ==
    UNION {{<<o[1], o[2], e + 1>> :
                e \in {e1 \in (o[2] + 1)..(Len(h) - 1) : IsStmt(h, o[1], o[2], e1)}}
           : o \in Opens(h)}

FirstStmt(h) == CHOOSE m \in Stmts(h) : \A n \in Stmts(h) : m[1] <= n[1]

\* ------------------------------------------------- reading the JSON back
BackslashesBefore(h, c) ==
    CHOOSE n \in 0..(c - 1) :
        /\ \A i \in (c - n)..(c - 1) : h[i] = "\\"
        /\ c - n - 1 < 1 \/ h[c - n - 1] # "\\"

OpensJsonEscape(h, i) == h[i] = "\\" /\ BackslashesBefore(h, i) % 2 = 0
ClosesString(h, c) == h[c] = "\"" /\ BackslashesBefore(h, c) % 2 = 0

Unescaped(h, i) ==
    CASE h[i + 1] = "\"" -> <<"\"">>
      [] h[i + 1] = "\\" -> <<"\\">>
      [] h[i + 1] = "n" -> <<"\n">>
      [] h[i + 1] = "t" -> <<"\t">>
      [] h[i + 1] = "u" /\ Slice(h, i + 2, i + 5) = <<"2", "7", "1", "3">> -> <<CheckMark>>
      [] OTHER -> <<"?">>

\* the string whose opening quote is at p: its value and the index of its
\* closing quote
ParseString(h, p) ==
    LET c == CHOOSE c1 \in (p + 1)..Len(h) :
                 /\ ClosesString(h, c1)
                 /\ \A d \in (p + 1)..(c1 - 1) : ~ClosesString(h, d)
        inside == [n \in 1..(c - p - 1) |->
            LET i == p + n
            IN  IF OpensJsonEscape(h, i) THEN Unescaped(h, i)
                ELSE IF n > 1 /\ OpensJsonEscape(h, i - 1) THEN <<>>
                ELSE IF \E d \in 2..5 :
                          n > d /\ OpensJsonEscape(h, i - d) /\ h[i - d + 1] = "u"
                     THEN <<>>
                ELSE <<h[i]>>]
    IN  [val |-> Flatten(inside), end |-> c]

\* the members of an object from the key whose opening quote is at p on
RECURSIVE ParseMembers(_, _, _)
ParseMembers(h, p, acc) ==
    LET key == ParseString(h, p)
        v == ParseString(h, SkipSpace(h, key.end + 2))
        n == SkipSpace(h, v.end + 1)
        acc2 == (key.val[1] :> v.val) @@ acc
    IN  IF h[key.end + 1] # ":" THEN [rec |-> acc, end |-> 0]
        ELSE IF h[n] = "," THEN ParseMembers(h, SkipSpace(h, n + 1), acc2)
        ELSE [rec |-> acc2, end |-> IF h[n] = "}" THEN n ELSE 0]

\* the objects of an array from the "{" at p on
RECURSIVE ParseObjects(_, _, _)
ParseObjects(h, p, acc) ==
    LET o == ParseMembers(h, SkipSpace(h, p + 1), <<>>)
        n == SkipSpace(h, o.end + 1)
        acc2 == Append(acc, o.rec)
    IN  IF h[p] # "{" \/ o.end = 0 THEN [recs |-> acc, end |-> 0]
        ELSE IF h[n] = "," THEN ParseObjects(h, SkipSpace(h, n + 1), acc2)
        ELSE [recs |-> acc2, end |-> IF h[n] = "]" THEN n ELSE 0]

\* the array whose "[" is at p: its objects and the index of its "]"
ParseArray(h, p) ==
    LET n == SkipSpace(h, p + 1)
    IN  IF h[n] = "]" THEN [recs |-> <<>>, end |-> n] ELSE ParseObjects(h, n, <<>>)

\* C3: after inject the text that follows the statement's prefix is the JSON
\* of the records, backslashes as json.dumps wrote them, then ";", and read
\* back as JSON it gives the same records in the same order.
C3_JsonRoundTrip ==
    Updated =>
        LET m == FirstStmt(Before)
            json == Dumps(entries)
            last == m[2] + Len(json) - 1
        IN  /\ Slice(After, m[1], m[2] - 1) = Slice(Before, m[1], m[2] - 1)
            /\ Slice(After, m[2], last) = json
            /\ After[last + 1] = ";"
            /\ ParseArray(After, m[2]) = [recs |-> entries, end |-> last]

C3_Witness ==
    /\ Updated
    /\ \E k \in 1..Len(entries) : "\\" \in Range(entries[k].remark)
    /\ \E k \in 1..Len(entries) : CheckMark \in Range(entries[k].remark)
    /\ \E k \in 1..Len(entries) : "\"" \in Range(entries[k].paper)

\* C4: a second inject of the same records into the output of the first
\* leaves the document as the first left it.
C4_SecondRunChangesNothing ==
    (Updated /\ run >= 2 /\ Said(prevOut, "updated")) => htmlFile = htmlAtStart

\* C5: with no `const data = [...];` in the document inject reports it and
\* does not write: index.html is as it was.
C5_NoStmtNoWrite ==
    (pc = "done" /\ "read index.html" \in Range(ops)
        /\ htmlAtStart.exists /\ Stmts(Before) = {})
    => /\ out[Len(out)].msg = "const data not found"
       /\ "write index.html" \notin Range(ops)
       /\ htmlFile = htmlAtStart

C5_Witness ==
    /\ pc = "done"
    /\ Said(out, "const data not found")
    /\ Stmts(Before) = {}
    /\ Len(Before) > 0

\* C10 as stated: only the first statement is replaced; all that precedes it
\* and all that follows its "];" is unchanged.
C10_OnlyFirstStmtReplaced ==
    Updated =>
        LET m == FirstStmt(Before)
        IN  After = Slice(Before, 1, m[2] - 1) \o Dumps(entries) \o <<";">>
                    \o Slice(Before, m[3] + 1, Len(Before))

\* C10 amended: every statement a left-to-right scan finds is replaced by its
\* own prefix, the JSON array and ";"; all text outside them is unchanged.
C10_EveryStmtReplaced ==
    Updated =>
        LET Piece(m) == Slice(Before, m[1], m[2] - 1) \o Dumps(entries) \o <<";">>
        IN  After = Rewritten(Before, Taken(Stmts(Before)), Piece)

C10_Witness ==
    /\ Updated
    /\ Cardinality(Taken(Stmts(Before))) = 2
    /\ "mid" \in Range(After) /\ "end" \in Range(After)

\* ===================================================== properties: the run
TouchesHtml == \E i \in 1..Len(ops) : ops[i] \in {"read index.html", "write index.html"}

\* a README in which no token spells the last column name holds no header
NoBibColumn == readmeFile.exists /\ \A i \in 1..Len(readmeFile.text) :
    Lower(readmeFile.text[i]) # "bib"

\* C6: inject starts only after extract has returned, and only with at least
\* one record; with no header, or no row of 6 cells, extract returns nothing
\* and index.html is neither read nor written.
C6_InjectOnlyWithRecords ==
    /\ (TouchesHtml \/ pc \in {"open_html", "search", "crashed"}) =>
          /\ Len(entries) > 0 /\ entries = data /\ idx > Len(lines)
          /\ ops[1] = "read README.md"
    /\ (pc = "done" /\ (Said(out, "header not found") \/ NoBibColumn
                        \/ (Len(lines) > 0 /\ WideRows(lines) = {}))) =>
          /\ entries = <<>>
          /\ ~TouchesHtml
          /\ htmlFile = htmlAtStart
    /\ (pc = "done" /\ NoBibColumn) => Said(out, "header not found")

C6_Witness ==
    /\ pc = "done"
    /\ NoBibColumn
    /\ Said(out, "header not found")
    /\ htmlFile.exists /\ Stmts(htmlFile.text) # {}

\* C7: a file missing when it is opened for reading is reported and the run
\* ends there: index.html is not written and not created, and the program
\* neither raises nor stops short of its end.
C7_MissingFileNoSideEffect ==
    /\ (pc # "main" /\ ~readmeFile.exists) =>
          /\ Said(out, "README.md not found")
          /\ pc \in {"main_if", "done"}
          /\ entries = <<>> /\ ~TouchesHtml /\ htmlFile = htmlAtStart
          /\ pc = "done" \/ ENABLED SkipUpdate
    /\ ("read index.html" \in Range(ops) /\ ~htmlAtStart.exists) =>
          /\ Said(out, "index.html not found")
          /\ pc = "done"
          /\ "write index.html" \notin Range(ops)
          /\ ~htmlFile.exists /\ htmlFile = htmlAtStart

C7_Witness ==
    /\ pc = "done"
    /\ Said(out, "index.html not found")
    /\ Len(entries) > 0
    /\ ~htmlFile.exists

====
